---- MODULE Spec2Model ----
(***************************************************************************)
(* Model of authservice.go: the reflection-driven request validator        *)
(* (getResourceFields, validateContext), the token issuer (generateJwt)    *)
(* and the two echo handlers (createUser, authUser).                       *)
(***************************************************************************)
EXTENDS Integers, Sequences, FiniteSets, TLC

(***************************************************************************)
(* Bounds of the model.                                                    *)
(***************************************************************************)
\* Largest number of fields (leaves and nested structs together) of a resource.
MaxNodes == 4
\* Number of requests the server receives.
MaxRequests == 2
\* Number of seconds the wall clock advances.
MaxClock == 1

(***************************************************************************)
(* Resources: the struct types handed to validateContext.  A resource is   *)
(* the sequence of its fields in declaration order; a field has a name, a  *)
(* reflect.Kind and, for Kind Struct, its own fields.                      *)
(***************************************************************************)
FieldNames == {"UserID", "Password", "Email"}
GroupNames == {"authUserReq"}

\* reflect.Kind of a field: a scalar, a nested struct, or a kind that is
\* neither (pointer, slice, map, ...).
ScalarKinds == {"String"}
OtherKinds == {"Ptr"}

Leaf(n, k) == [name |-> n, kind |-> k, fields |-> <<>>]
Group(n, fs) == [name |-> n, kind |-> "Struct", fields |-> fs]

\* authUserReq, lines 70-73.
authUserReq == <<Leaf("UserID", "String"), Leaf("Password", "String")>>

\* createUserReq, lines 24-27: embeds authUserReq, then Email.
createUserReq == <<Group("authUserReq", authUserReq), Leaf("Email", "String")>>

\* Go rejects a struct that declares two fields of the same name.
SiblingsDistinct(fs) == \A i, j \in 1..Len(fs) : fs[i].name = fs[j].name => i = j

RECURSIVE StructsOfSize(_)
StructsOfSize(n) ==
  IF n = 0 THEN {<<>>}
  ELSE UNION { LET heads == { Group(g, fs) : g \in GroupNames, fs \in StructsOfSize(k - 1) }
                             \cup (IF k = 1
                                   THEN { Leaf(f, kd) : f \in FieldNames,
                                                        kd \in ScalarKinds \cup OtherKinds }
                                   ELSE {})
               IN { s \in { <<h>> \o t : h \in heads, t \in StructsOfSize(n - k) } :
                      SiblingsDistinct(s) }
             : k \in 1..n }

\* Every resource of at most MaxNodes fields.
Resources == UNION { StructsOfSize(n) : n \in 0..MaxNodes }

(***************************************************************************)
(* Requests.  c.FormParams() yields the parsed form (field name -> value)  *)
(* or a parse error; c.FormValue(v) is the value of v, "" when absent.     *)
(***************************************************************************)
FormNames == FieldNames

\* The values a request may carry for a field; "" is the blank value.
ValuesOf(n) == IF n = "UserID" THEN {"", "bob", "alice"} ELSE {"", "secret"}

Forms == UNION { { f \in [ks -> {"", "bob", "alice", "secret"}] :
                     \A n \in ks : f[n] \in ValuesOf(n) } : ks \in SUBSET FormNames }

NoForm == [n \in {} |-> ""]

\* FormParams returns the parsed form and a nil error, or a nil form and the
\* parse error.
Contexts == { [form |-> f, parseErr |-> FALSE] : f \in Forms }
            \cup { [form |-> NoForm, parseErr |-> TRUE] }

FormValue(c, v) == IF v \in DOMAIN c.form THEN c.form[v] ELSE ""

\* len(reqForm): the number of keys of the form.
FormLen(c) == Cardinality(DOMAIN c.form)

(***************************************************************************)
(* getResourceFields, lines 147-161.                                       *)
(***************************************************************************)
RECURSIVE getResourceFields(_)
RECURSIVE FieldsFrom(_, _, _)
RECURSIVE FieldsFromNamingGroups(_, _, _)

\* As FieldsFrom, but a nested struct also contributes its own name.
FieldsFromNamingGroups(resource, i, rFields) ==
  IF i > Len(resource) THEN rFields
  ELSE LET fieldValue == resource[i]
       IN FieldsFromNamingGroups(resource, i + 1,
            IF fieldValue.kind = "Struct"
            THEN Append(rFields, fieldValue.name) \o getResourceFields(fieldValue.fields)
            ELSE Append(rFields, fieldValue.name))

\* The loop of lines 149-158 from index i on, rFields being what was
\* appended so far.
FieldsFrom(resource, i, rFields) ==
  IF i > Len(resource) THEN rFields
  ELSE LET fieldValue == resource[i]
       IN FieldsFrom(resource, i + 1,
            IF fieldValue.kind = "Struct"
            THEN rFields \o getResourceFields(fieldValue.fields)
            ELSE Append(rFields, fieldValue.name))

getResourceFields(resource) == FieldsFrom(resource, 1, <<>>)

(***************************************************************************)
(* validateContext, lines 118-141.                                         *)
(***************************************************************************)
Nil == "nil"
ReqLengthStructLengthNotEqual == "ReqLengthStructLengthNotEqual"
ReqFieldsStructFieldsNotEqual == "ReqFieldsStructFieldsNotEqual"
FormParseError == "FormParseError"

\* Line 143: declared; no statement returns it.
StructNotRecognized == "StructNotRecognized"

\* As validateContext, without the comparison of the lengths.
validateContextNoCount(resource, c) ==
  LET fields == getResourceFields(resource)
  IN IF c.parseErr THEN FormParseError
     ELSE IF \E i \in 1..Len(fields) : FormValue(c, fields[i]) = ""
          THEN ReqFieldsStructFieldsNotEqual
     ELSE Nil

\* As validateContext, with the values looked at before the lengths.
validateContextValuesFirst(resource, c) ==
  LET fields == getResourceFields(resource)
  IN IF c.parseErr THEN FormParseError
     ELSE IF \E i \in 1..Len(fields) : FormValue(c, fields[i]) = ""
          THEN ReqFieldsStructFieldsNotEqual
     ELSE IF FormLen(c) # Len(fields) THEN ReqLengthStructLengthNotEqual
     ELSE Nil

validateContext(resource, c) ==
  LET fields == getResourceFields(resource)
  IN IF c.parseErr THEN FormParseError
     ELSE IF FormLen(c) # Len(fields) THEN ReqLengthStructLengthNotEqual
     ELSE IF \E i \in 1..Len(fields) : FormValue(c, fields[i]) = ""
          THEN ReqFieldsStructFieldsNotEqual
     ELSE Nil

(***************************************************************************)
(* The Credential Gateway (package user): results of user.CreateUser and   *)
(* user.AuthUser as the handlers see them.                                 *)
(***************************************************************************)
UserAlreadyExists == "UserAlreadyExists"
Unauthorized == "Unauthorized"
Other == "Other"

CreateUserResults == {Nil, UserAlreadyExists, Other}
AuthUserResults == {Nil, Unauthorized, Other}

(***************************************************************************)
(* HTTP statuses.                                                          *)
(***************************************************************************)
StatusOK == 200
StatusCreated == 201
StatusBadRequest == 400
StatusUnauthorized == 401
StatusConflict == 409
StatusInternalServerError == 500

\* As ValidationPassed, for a handler that does not return on the error.
ValidationIgnored(err) == TRUE

\* The err != nil tests of lines 41 and 84: the handler goes on to the
\* gateway only when validateContext returned nil.
ValidationPassed(err) == err = Nil

\* As CreateStatus, without the case of user.UserAlreadyExists.
CreateStatusNoConflict(err) ==
  IF err = Nil THEN StatusCreated ELSE StatusInternalServerError

\* createUser, lines 54-63: the status for the result of user.CreateUser.
CreateStatus(err) ==
  IF err = Nil THEN StatusCreated
  ELSE IF err = UserAlreadyExists THEN StatusConflict
  ELSE StatusInternalServerError

\* authUser, lines 94-97: every error of user.AuthUser is answered alike.
AuthFailed(err) == err # Nil

(***************************************************************************)
(* generateJwt, lines 164-194.                                             *)
(***************************************************************************)
\* What ioutil.ReadFile finds at the key path: no readable file, bytes that
\* are no PEM private key, a key too short to sign a SHA-256 digest, a key
\* that signs.
KeyFiles == {"unreadable", "malformed", "short", "valid"}

ReadFileError == "ReadFileError"
ParseKeyError == "ParseKeyError"
SignError == "SignError"

\* AddDate(0, 0, 7) of a UTC time, in seconds.
ValidityWindow == 604800

EmptyClaims == [n \in {} |-> ""]

\* The string "" and a compact signed token over a claim set.
EmptyToken == [signed |-> FALSE, claims |-> EmptyClaims]
SignedString(cl) == [signed |-> TRUE, claims |-> cl]

\* As ClaimsAreMapClaims, were the assertion of line 172 to fail.
ClaimsNotMapClaims == FALSE

\* jwt.New(SigningMethodRS256) makes Claims a jwt.MapClaims, so the type
\* assertion of line 172 yields ok = true.
ClaimsAreMapClaims == TRUE

\* Lines 177-180: the claims written with the first reading of the clock.
ClaimsAt180(UserID, now) ==
  [n \in {"iss", "sub", "aud", "exp"} |->
     CASE n = "iss" -> "Auth-Service"
       [] n = "sub" -> UserID
       [] n = "aud" -> "Moment-Service"
       [] n = "exp" -> now + ValidityWindow]

\* Line 181: iat from a second reading of the clock.
ClaimsAt181(cl, now) ==
  [n \in DOMAIN cl \cup {"iat"} |-> IF n = "iat" THEN now ELSE cl[n]]

\* As SignAndReturn, without the error test of lines 184-186.
SignAndReturnUnparsed(bytes, cl) ==
  IF bytes = "short" THEN [token |-> EmptyToken, err |-> SignError]
  ELSE [token |-> SignedString(cl), err |-> Nil]

\* Lines 183-193: parse the bytes read at line 166, sign, return.
SignAndReturn(bytes, cl) ==
  IF bytes = "malformed" THEN [token |-> EmptyToken, err |-> ParseKeyError]
  ELSE IF bytes = "short" THEN [token |-> EmptyToken, err |-> SignError]
  ELSE [token |-> SignedString(cl), err |-> Nil]

NoHeader == [set |-> FALSE, value |-> EmptyToken]

\* authUser, lines 99-107: the response for what generateJwt returned.
AuthRespond(ret) ==
  IF ret.err # Nil
  THEN [status |-> StatusInternalServerError, header |-> NoHeader]
  ELSE [status |-> StatusOK, header |-> [set |-> TRUE, value |-> ret.token]]

(***************************************************************************)
(* State.                                                                  *)
(***************************************************************************)
VARIABLES
  resource, ctx, vpc, rFields, verr,  \* the validator on its own
  pc,         \* where the request being handled stands
  path,       \* its route: "create" or "auth"
  c,          \* its echo.Context
  calls,      \* the components it has called, in order
  err,        \* what validateContext returned to the handler
  gw,         \* what the Credential Gateway returned
  UserID,     \* generateJwt: its argument
  p,          \* generateJwt: the bytes read from the key file
  claims,     \* generateJwt: t.Claims
  ret,        \* generateJwt: the (token, error) it returned
  status,     \* the response status, 0 while none is written
  header,     \* the response header "jwt"
  clock,      \* the wall clock, in seconds
  keyFile,    \* what is at /home/tjp/.ssh/jwt_private.pem
  responses   \* one entry per response sent, oldest first

vvars == <<resource, ctx, vpc, rFields, verr>>
reqvars == <<pc, path, c, calls, err, gw, UserID, p, claims, ret, status, header>>
svars == <<reqvars, clock, keyFile, responses>>
vars == <<vvars, svars>>

NoContext == [form |-> NoForm, parseErr |-> FALSE]
NoReturn == [token |-> EmptyToken, err |-> "none"]

ServerIdle ==
  /\ pc = "idle"
  /\ path = "none"
  /\ c = NoContext
  /\ calls = <<>>
  /\ err = "none"
  /\ gw = "none"
  /\ UserID = ""
  /\ p = "nil"
  /\ claims = EmptyClaims
  /\ ret = NoReturn
  /\ status = 0
  /\ header = NoHeader
  /\ clock = 0
  /\ responses = <<>>

ValidatorIdle ==
  /\ resource = <<>>
  /\ ctx = NoContext
  /\ vpc = "ready"
  /\ rFields = <<>>
  /\ verr = "none"

(***************************************************************************)
(* The validator on its own: any resource, any request.                    *)
(***************************************************************************)
ValidateInit ==
  /\ resource \in Resources
  /\ ctx \in Contexts
  /\ vpc = "ready"
  /\ rFields = <<>>
  /\ verr = "none"
  /\ ServerIdle
  /\ keyFile = "valid"

\* A call of getResourceFields(resource, c) alone.
Flatten ==
  /\ vpc' = "flattened"
  /\ rFields' = getResourceFields(resource)
  /\ verr' = "none"
  /\ UNCHANGED <<resource, ctx, svars>>

\* A call of validateContext(resource, c).
Validate ==
  /\ vpc' = "validated"
  /\ rFields' = getResourceFields(resource)
  /\ verr' = validateContext(resource, ctx)
  /\ UNCHANGED <<resource, ctx, svars>>

ValidateNext == Flatten \/ Validate

ValidateSpec == ValidateInit /\ [][ValidateNext]_vars

(***************************************************************************)
(* The server.  Handlers share no variable of the process, so requests are *)
(* taken one at a time; the clock and the key file change at any moment.   *)
(***************************************************************************)
Init ==
  /\ ValidatorIdle
  /\ ServerIdle
  /\ keyFile \in KeyFiles

Accepting == pc \in {"idle", "done"} /\ Len(responses) < MaxRequests

Entry(pth, st, e) == [path |-> pth, status |-> st, err |-> e]

\* POST /user/:user/create, lines 38-66.
createUser(cx) ==
  LET e == validateContext(createUserReq, cx)
  IN /\ Accepting
     /\ pc' = "done"
     /\ path' = "create"
     /\ c' = cx
     /\ err' = e
     /\ header' = NoHeader
     /\ UserID' = ""
     /\ p' = "nil"
     /\ claims' = EmptyClaims
     /\ ret' = NoReturn
     /\ IF ValidationPassed(e)
        THEN \E result \in CreateUserResults :
               /\ calls' = <<"validateContext", "CreateUser">>
               /\ gw' = result
               /\ status' = CreateStatus(result)
               /\ responses' = Append(responses,
                                      Entry("create", CreateStatus(result), result))
        ELSE /\ calls' = <<"validateContext">>
             /\ gw' = "none"
             /\ status' = StatusBadRequest
             /\ responses' = Append(responses, Entry("create", StatusBadRequest, e))
     /\ UNCHANGED <<vvars, clock, keyFile>>

\* POST /auth, lines 82-99: up to the call of generateJwt.
authUser(cx) ==
  LET e == validateContext(authUserReq, cx)
  IN /\ Accepting
     /\ path' = "auth"
     /\ c' = cx
     /\ err' = e
     /\ header' = NoHeader
     /\ p' = "nil"
     /\ claims' = EmptyClaims
     /\ ret' = NoReturn
     /\ IF ValidationPassed(e)
        THEN \E result \in AuthUserResults :
               /\ gw' = result
               /\ IF AuthFailed(result)
                  THEN /\ calls' = <<"validateContext", "AuthUser">>
                       /\ pc' = "done"
                       /\ UserID' = ""
                       /\ status' = StatusUnauthorized
                       /\ responses' = Append(responses,
                                              Entry("auth", StatusUnauthorized, result))
                  ELSE /\ calls' = <<"validateContext", "AuthUser", "generateJwt">>
                       /\ pc' = "line166"
                       /\ UserID' = FormValue(cx, "UserID")
                       /\ status' = 0
                       /\ UNCHANGED responses
        ELSE /\ calls' = <<"validateContext">>
             /\ gw' = "none"
             /\ pc' = "done"
             /\ UserID' = ""
             /\ status' = StatusBadRequest
             /\ responses' = Append(responses, Entry("auth", StatusBadRequest, e))
     /\ UNCHANGED <<vvars, clock, keyFile>>

\* generateJwt returns r to authUser, which answers (lines 99-107).
Return(r) ==
  LET a == AuthRespond(r)
  IN /\ pc' = "done"
     /\ ret' = r
     /\ status' = a.status
     /\ header' = a.header
     /\ responses' = Append(responses, Entry("auth", a.status, r.err))

\* generateJwt, lines 166-175: read the key file, make the token.
ReadKeyFile ==
  /\ pc = "line166"
  /\ IF keyFile = "unreadable"
     THEN /\ Return([token |-> EmptyToken, err |-> ReadFileError])
          /\ UNCHANGED p
     ELSE /\ p' = keyFile
          /\ IF ClaimsAreMapClaims
             THEN /\ pc' = "line180"
                  /\ UNCHANGED <<ret, status, header, responses>>
             ELSE Return([token |-> EmptyToken, err |-> Nil])
  /\ UNCHANGED <<vvars, path, c, calls, err, gw, UserID, claims, clock, keyFile>>

\* generateJwt, lines 177-180.
SetExp ==
  /\ pc = "line180"
  /\ claims' = ClaimsAt180(UserID, clock)
  /\ pc' = "line181"
  /\ UNCHANGED <<vvars, path, c, calls, err, gw, UserID, p, ret, status, header,
                 clock, keyFile, responses>>

\* generateJwt, line 181.
SetIat ==
  /\ pc = "line181"
  /\ claims' = ClaimsAt181(claims, clock)
  /\ pc' = "line183"
  /\ UNCHANGED <<vvars, path, c, calls, err, gw, UserID, p, ret, status, header,
                 clock, keyFile, responses>>

\* generateJwt, lines 183-193, and the rest of authUser.
Sign ==
  /\ pc = "line183"
  /\ Return(SignAndReturn(p, claims))
  /\ UNCHANGED <<vvars, path, c, calls, err, gw, UserID, p, claims, clock, keyFile>>

\* A second passes.
Tick ==
  /\ clock < MaxClock
  /\ clock' = clock + 1
  /\ UNCHANGED <<vvars, reqvars, keyFile, responses>>

\* The key file is replaced, removed or made unreadable.
KeyFileChange(k) ==
  /\ k # keyFile
  /\ keyFile' = k
  /\ UNCHANGED <<vvars, reqvars, clock, responses>>

Next ==
  \/ \E cx \in Contexts : createUser(cx)
  \/ \E cx \in Contexts : authUser(cx)
  \/ ReadKeyFile
  \/ SetExp
  \/ SetIat
  \/ Sign
  \/ Tick
  \/ \E k \in KeyFiles : KeyFileChange(k)

Spec == Init /\ [][Next]_vars

(***************************************************************************)
(* What the properties below speak of.                                     *)
(***************************************************************************)
Range(sq) == { sq[i] : i \in 1..Len(sq) }
Distinct(sq) == \A i, j \in 1..Len(sq) : sq[i] = sq[j] => i = j

\* The leaf names of a schema, depth first, in declaration order.
RECURSIVE Flat(_)
Flat(schema) ==
  IF schema = <<>> THEN <<>>
  ELSE (IF Head(schema).kind = "Struct"
        THEN Flat(Head(schema).fields)
        ELSE <<Head(schema).name>>) \o Flat(Tail(schema))

RECURSIVE NumLeaves(_)
NumLeaves(schema) ==
  IF schema = <<>> THEN 0
  ELSE (IF Head(schema).kind = "Struct" THEN NumLeaves(Head(schema).fields) ELSE 1)
       + NumLeaves(Tail(schema))

\* The names of the fields, at any depth, whose kind is in kinds.
RECURSIVE NamesOfKind(_, _)
NamesOfKind(schema, kinds) ==
  IF schema = <<>> THEN {}
  ELSE (IF Head(schema).kind \in kinds THEN {Head(schema).name} ELSE {})
       \cup NamesOfKind(Head(schema).fields, kinds)
       \cup NamesOfKind(Tail(schema), kinds)

\* A schema of scalar leaves and nested groups only.
WellFormed(schema) == NamesOfKind(schema, OtherKinds) = {}

Returned == vpc \in {"flattened", "validated"}

\* The request carries a non-empty value for exactly the names of rFields.
ExactlyTheFields ==
  /\ DOMAIN ctx.form = Range(rFields)
  /\ \A n \in DOMAIN ctx.form : ctx.form[n] # ""

SomeFieldMissingOrEmpty == \E i \in 1..Len(rFields) : FormValue(ctx, rFields[i]) = ""

HandledAuth == pc = "done" /\ path = "auth"
HandledCreate == pc = "done" /\ path = "create"
Issuing == "generateJwt" \in Range(calls)
KeyUnavailable == {ReadFileError, ParseKeyError}

TheFiveClaims == {"iss", "sub", "aud", "iat", "exp"}

(***************************************************************************)
(* Properties of the validator (ValidateSpec).                             *)
(***************************************************************************)
\* C1: for a schema whose flattened names are pairwise distinct and a request
\* whose form was parsed, validateContext returns nil exactly when the names of
\* the request are the flattened names and each carries a non-empty value; the
\* request {UserID: "bob", Password: "secret"} is accepted for authUserReq.
C1_AcceptsExactlyTheFields ==
  (vpc = "validated" /\ Distinct(rFields) /\ ~ctx.parseErr)
    => /\ (verr = Nil) <=> ExactlyTheFields
       /\ (verr = Nil) => DOMAIN ctx.form \subseteq Range(rFields)
       /\ (resource = authUserReq
           /\ ctx.form = [n \in {"UserID", "Password"} |->
                            IF n = "UserID" THEN "bob" ELSE "secret"])
          => verr = Nil

C1_Witness ==
  /\ vpc = "validated"
  /\ resource = authUserReq
  /\ ctx.form = [n \in {"UserID", "Password"} |-> IF n = "UserID" THEN "bob" ELSE "secret"]
  /\ ~ctx.parseErr
  /\ verr = Nil

\* C2, as claimed: every rejection is classified by the comparison of the
\* counts first: a count that differs gives ReqLengthStructLengthNotEqual, an
\* equal count with an expected name absent or blank gives
\* ReqFieldsStructFieldsNotEqual.
C2_CountDecidesEveryRejection ==
  vpc = "validated"
    => /\ FormLen(ctx) # Len(rFields) => verr = ReqLengthStructLengthNotEqual
       /\ (FormLen(ctx) = Len(rFields) /\ SomeFieldMissingOrEmpty)
            => verr = ReqFieldsStructFieldsNotEqual

\* C2, amended: a request whose form cannot be parsed is rejected with the
\* parse error, before any count is taken; every rejection of a request whose
\* form was parsed is classified by the comparison of the counts first.
C2_CountDecidesParsedRejections ==
  vpc = "validated"
    => /\ ctx.parseErr => verr = FormParseError
       /\ (~ctx.parseErr /\ FormLen(ctx) # Len(rFields))
            => verr = ReqLengthStructLengthNotEqual
       /\ (~ctx.parseErr /\ FormLen(ctx) = Len(rFields) /\ SomeFieldMissingOrEmpty)
            => verr = ReqFieldsStructFieldsNotEqual
       /\ verr \in {Nil, FormParseError, ReqLengthStructLengthNotEqual,
                    ReqFieldsStructFieldsNotEqual}

\* An extra field together with a blank expected one: the count decides.
C2_Witness ==
  /\ vpc = "validated"
  /\ resource = authUserReq
  /\ ~ctx.parseErr
  /\ DOMAIN ctx.form = {"UserID", "Password", "Email"}
  /\ ctx.form["Password"] = ""
  /\ verr = ReqLengthStructLengthNotEqual

\* C3: for a schema of leaves and groups, getResourceFields returns the leaf
\* names depth first in declaration order, a group giving its children's names
\* at its place and never its own, one name per leaf; createUserReq gives
\* <<UserID, Password, Email>>; every call on a schema returns that sequence.
C3_FlattenIsLeavesInOrder ==
  (Returned /\ WellFormed(resource))
    => /\ rFields = Flat(resource)
       /\ Len(rFields) = NumLeaves(resource)
       /\ Range(rFields) = NamesOfKind(resource, ScalarKinds)
       /\ resource = createUserReq => rFields = <<"UserID", "Password", "Email">>

C3_Witness ==
  /\ vpc = "flattened"
  /\ resource = createUserReq
  /\ rFields = <<"UserID", "Password", "Email">>

\* C4, as claimed: for a schema with a field that is neither a scalar nor a
\* nested struct, flattening emits no name for that field but fails with
\* StructNotRecognized, and validateContext does not return nil.
C4_UnrecognizedKindIsRejected ==
  (Returned /\ ~WellFormed(resource))
    => /\ Range(rFields) \cap NamesOfKind(resource, OtherKinds) = {}
       /\ vpc = "validated" => verr # Nil

(***************************************************************************)
(* Properties of the server (Spec).                                        *)
(***************************************************************************)
\* C5, as claimed: every token returned by generateJwt has exactly the claims
\* iss, sub, aud, iat and exp, with the fixed issuer and audience, the given
\* subject, and exp = iat + 604800, also when the clock advances between the
\* readings of the time.
C5_ExpIsIatPlusWindow ==
  (pc = "done" /\ ret.err = Nil)
    => /\ DOMAIN ret.token.claims = TheFiveClaims
       /\ ret.token.claims["iss"] = "Auth-Service"
       /\ ret.token.claims["sub"] = UserID
       /\ ret.token.claims["aud"] = "Moment-Service"
       /\ ret.token.claims["exp"] = ret.token.claims["iat"] + ValidityWindow

\* C6: a key file that is unreadable or no well-formed key makes generateJwt
\* return an error and the empty token, and authUser answer 500 without a jwt
\* header; a nil error of generateJwt comes with a signed, non-empty token.
C6_KeyFailureGivesNoToken ==
  (HandledAuth /\ Issuing)
    => /\ p \in {"nil", "malformed"}
            => /\ ret.err \in KeyUnavailable
               /\ ret.token = EmptyToken
               /\ status = StatusInternalServerError
               /\ ~header.set
       /\ ret.err # Nil
            => /\ ret.token = EmptyToken
               /\ status = StatusInternalServerError
               /\ ~header.set
       /\ ret.err = Nil => (ret.token.signed /\ ret.token # EmptyToken)

C6_Witness ==
  /\ HandledAuth
  /\ Issuing
  /\ p = "malformed"
  /\ ret.err = ParseKeyError
  /\ status = StatusInternalServerError

C8_CreateStatusByResult ==
  (HandledCreate /\ err = Nil)
    => /\ calls = <<"validateContext", "CreateUser">>
       /\ gw \in CreateUserResults
       /\ gw = Nil <=> status = StatusCreated
       /\ gw = UserAlreadyExists <=> status = StatusConflict
       /\ gw = Other <=> status = StatusInternalServerError
       /\ responses[Len(responses)] = Entry("create", status, gw)

C8_Witness ==
  /\ HandledCreate
  /\ gw = UserAlreadyExists
  /\ status = StatusConflict
  /\ Len(responses) = 2
  /\ responses[1] = Entry("create", StatusInternalServerError, Other)

\* C9, as claimed: on the login path a failure Other of user.AuthUser is
\* answered with the server failure and only Unauthorized with 401.
C9_OtherIsServerFailure ==
  HandledAuth
    => /\ gw = Other => status = StatusInternalServerError
       /\ status = StatusUnauthorized => gw = Unauthorized

\* C10: a request runs validateContext, then the gateway, then (login only)
\* generateJwt, each at most once and each only after the one before
\* succeeded; a rejected request is answered 400 without a gateway call; the
\* response has a jwt header exactly when it is a 200 on the login path.
C10_StepsInOrder ==
  path # "none"
    => /\ calls \in (IF path = "create"
                     THEN {<<"validateContext">>, <<"validateContext", "CreateUser">>}
                     ELSE {<<"validateContext">>, <<"validateContext", "AuthUser">>,
                           <<"validateContext", "AuthUser", "generateJwt">>})
       /\ Len(calls) > 1 <=> err = Nil
       /\ (pc = "done" /\ err # Nil) => status = StatusBadRequest
       /\ status = StatusBadRequest => (err # Nil /\ gw = "none")
       /\ Issuing => (path = "auth" /\ err = Nil /\ gw = Nil)
       /\ header.set <=> (pc = "done" /\ status = StatusOK /\ path = "auth")
       /\ pc # "done" => status = 0

C10_Witness ==
  /\ HandledAuth
  /\ calls = <<"validateContext", "AuthUser", "generateJwt">>
  /\ status = StatusOK
  /\ header.set
  /\ Len(responses) = 2
  /\ responses[1].status = StatusBadRequest

====
